---- MODULE Spec2Model ----
(***************************************************************************)
(* Model of the finance tracker (src/script.js and its reworked copy       *)
(* src/unnamed/part_000): the in-memory transactions array of each open    *)
(* browser tab, the shared localStorage slot 'transactions', the rendered  *)
(* table, the summary cards and the modal dialog.                          *)
(*                                                                         *)
(* Text is modelled as sequences of one-character strings so that trim,    *)
(* parseFloat, parseInt, number-to-string and the Date constructor are     *)
(* computed rather than assumed.  Date.now() is the variable now, counted  *)
(* in clock ticks (milliseconds); new Date(s) is counted in days, which    *)
(* keeps the sign of every comparison the sort makes.                      *)
(***************************************************************************)
EXTENDS Integers, Sequences, FiniteSets, TLC

\* ------------------------------------------------------------------ bounds
MaxLen == 3
MaxClock == 2
MaxFaults == 1
FieldCount == 6

Tabs == {1, 2}

\* ------------------------------------------------------------ text helpers
DigitChars == <<"0", "1", "2", "3", "4", "5", "6", "7", "8", "9">>

IsDigit(c) == \E i \in 1..Len(DigitChars) : DigitChars[i] = c

DigitValue(c) == (CHOOSE i \in 1..Len(DigitChars) : DigitChars[i] = c) - 1

Front(s) == SubSeq(s, 1, Len(s) - 1)

Last(s) == s[Len(s)]

\* String.prototype.trim: strips white space at both ends.
RECURSIVE Trim(_)
Trim(s) ==
    IF s = <<>> THEN s
    ELSE IF Head(s) = " " THEN Trim(Tail(s))
    ELSE IF Last(s) = " " THEN Trim(Front(s))
    ELSE s

\* The longest prefix of s made of digits (what parseInt / parseFloat consume).
RECURSIVE DigitPrefix(_)
DigitPrefix(s) ==
    IF s = <<>> \/ ~IsDigit(Head(s)) THEN <<>>
    ELSE <<Head(s)>> \o DigitPrefix(Tail(s))

RECURSIVE DigitsToNumber(_)
DigitsToNumber(s) ==
    IF s = <<>> THEN 0
    ELSE 10 * DigitsToNumber(Front(s)) + DigitValue(Last(s))

\* parseInt(s, 10) on the decimal strings the page writes into data-id.
ParseInt(s) == DigitsToNumber(DigitPrefix(Trim(s)))

\* parseFloat(s) on the unsigned whole amounts of the model.
ParseFloat(s) == DigitsToNumber(DigitPrefix(Trim(s)))

\* Number-to-string of a non-negative integer (template literal ${id}).
RECURSIVE NumberToString(_)
NumberToString(n) ==
    IF n < 10 THEN <<DigitChars[n + 1]>>
    ELSE NumberToString(n \div 10) \o <<DigitChars[(n % 10) + 1]>>

\* new Date("YYYY-MM-DD"): the UTC day number of the calendar date.
DateValue(s) ==
    LET y0 == DigitsToNumber(SubSeq(s, 1, 4))
        m  == DigitsToNumber(SubSeq(s, 6, 7))
        d  == DigitsToNumber(SubSeq(s, 9, 10))
        y  == IF m <= 2 THEN y0 - 1 ELSE y0
        era == y \div 400
        yoe == y - era * 400
        mp  == IF m > 2 THEN m - 3 ELSE m + 9
        doy == (153 * mp + 2) \div 5 + d - 1
        doe == yoe * 365 + yoe \div 4 - yoe \div 100 + doy
    IN  era * 146097 + doe - 719468


\* ------------------------------------------------------------- form values
Date0101 == <<"2", "0", "2", "4", "-", "0", "1", "-", "0", "1">>
Date0201 == <<"2", "0", "2", "4", "-", "0", "2", "-", "0", "1">>
Date0301 == <<"2", "0", "2", "4", "-", "0", "3", "-", "0", "1">>

Form(a, c, d, dt, ty) ==
    [amount |-> a, category |-> c, description |-> d, date |-> dt, type |-> ty]

\* The values a submit event can find in the form's five inputs.
ValidForms ==
    { Form(<<"1", "0", "0">>, <<"P", "a", "y">>, "", Date0301, "income"),
      Form(<<"3", "0">>, <<"F", "o", "o", "d">>, "lunch", Date0201, "expense") }

BlankForms ==
    { Form(<<>>, <<"F", "o", "o", "d">>, "lunch", Date0201, "expense"),
      Form(<<"3", "0">>, <<>>, "lunch", Date0201, "expense"),
      Form(<<"3", "0">>, <<"F", "o", "o", "d">>, "lunch", <<>>, "expense"),
      Form(<<"3", "0">>, <<"F", "o", "o", "d">>, "lunch", Date0201, "") }

Forms == ValidForms \cup BlankForms

\* A record left in storage by an earlier session (its id precedes the clock).
SeedRecord ==
    [id |-> 0, amount |-> <<"7">>, category |-> <<"P", "a", "y">>,
     description |-> "", date |-> Date0101, type |-> "income"]

\* ------------------------------------------------------------------- JSON
\* JSON.stringify(transactions): the text of the array, one token per field,
\* the fields of each object in the order the object literal sets them.
RECURSIVE Stringify(_)
Stringify(records) ==
    IF records = <<>> THEN <<>>
    ELSE LET r == Head(records)
         IN  <<r.id, r.amount, r.category, r.description, r.date, r.type>>
                 \o Stringify(Tail(records))

\* JSON.parse accepts the text only if every object in it is complete.
WellFormed(text) == Len(text) % FieldCount = 0

RECURSIVE Parse(_)
Parse(text) ==
    IF text = <<>> THEN <<>>
    ELSE <<[id |-> text[1], amount |-> text[2], category |-> text[3],
            description |-> text[4], date |-> text[5], type |-> text[6]]>>
             \o Parse(SubSeq(text, FieldCount + 1, Len(text)))

NoItem == [present |-> FALSE, text |-> <<>>]

Item(text) == [present |-> TRUE, text |-> text]

\* ------------------------------------------------------------- rendering
\* The comparator with its operands exchanged: oldest first.
CompareDatesAscending(a, b) == DateValue(a.date) - DateValue(b.date)

\* The comparator of the sort: new Date(b.date) - new Date(a.date).
CompareDates(a, b) == DateValue(b.date) - DateValue(a.date)

\* Array.prototype.sort is stable: x goes behind every element that does not
\* compare greater than it.
RECURSIVE InsertSorted(_, _)
InsertSorted(sorted, x) ==
    IF sorted = <<>> THEN <<x>>
    ELSE IF CompareDates(Head(sorted), x) <= 0
         THEN <<Head(sorted)>> \o InsertSorted(Tail(sorted), x)
         ELSE <<x>> \o sorted

RECURSIVE SortTransactions(_)
SortTransactions(records) ==
    IF records = <<>> THEN <<>>
    ELSE InsertSorted(SortTransactions(Front(records)), Last(records))

\* One table row: the cells and the data-id of its delete button.
Row(r) ==
    [dataId |-> NumberToString(r.id), date |-> r.date, type |-> r.type,
     category |-> r.category,
     description |-> IF r.description = "" THEN "-" ELSE r.description,
     amount |-> ParseFloat(r.amount)]

RenderTransactions(records) ==
    LET sortedTransactions == SortTransactions(records)
    IN  [i \in 1..Len(sortedTransactions) |-> Row(sortedTransactions[i])]

\* ---------------------------------------------------------------- summary
IsIncome(r) == r.type = "income"

IsExpense(r) == r.type = "expense"

\* reduce((acc, t) => acc + parseFloat(t.amount), 0)
RECURSIVE ReduceAmounts(_, _)
ReduceAmounts(records, acc) ==
    IF records = <<>> THEN acc
    ELSE ReduceAmounts(Tail(records), acc + ParseFloat(Head(records).amount))

\* The balance with the expense added instead of taken off.
BalanceAdded(income, expense) == income + expense

Balance(income, expense) == income - expense

UpdateSummary(records) ==
    LET income == ReduceAmounts(SelectSeq(records, IsIncome), 0)
        expense == ReduceAmounts(SelectSeq(records, IsExpense), 0)
    IN  [income |-> income, expense |-> expense,
         balance |-> Balance(income, expense)]


\* ------------------------------------------------------------------ state
VARIABLES
    build,          \* which of the two script files the page runs
    now,            \* Date.now(), in ticks
    storage,        \* localStorage.getItem('transactions'), shared by the tabs
    pc,             \* per tab: "closed", "loading", "ready" or "crashed"
    transactions,   \* per tab: the in-memory array
    view,           \* per tab: the rows of #transaction-list
    summary,        \* per tab: the three summary cards
    modal,          \* per tab: #custom-modal
    uncaught,       \* per tab: the last exception no handler caught
    faults          \* how many setItem calls have thrown

vars ==
    <<build, now, storage, pc, transactions, view, summary, modal, uncaught, faults>>

Builds == {"script.js", "part_000"}

HiddenModal == [display |-> "none", title |-> "", id |-> 0]

\* showModal(title, text, buttons): id is the one the Delete button closes over.
ShowModal(title, id) == [display |-> "flex", title |-> title, id |-> id]

ModalButtons(m) ==
    IF m.title = "Validation Error" THEN {"OK"}
    ELSE IF m.title = "Confirm Deletion" THEN {"Cancel", "Delete"}
    ELSE {}

\* What the slot can hold when a tab opens: nothing, an earlier session's
\* array, or a text cut short in the middle of an object.
InitialItems ==
    { NoItem,
      Item(Stringify(<<SeedRecord>>)),
      Item(SubSeq(Stringify(<<SeedRecord>>), 1, 4)) }

InitCommon ==
    /\ build \in Builds
    /\ now = 1
    /\ storage \in InitialItems
    /\ transactions = [t \in Tabs |-> <<>>]
    /\ view = [t \in Tabs |-> <<>>]
    /\ summary = [t \in Tabs |-> [income |-> 0, expense |-> 0, balance |-> 0]]
    /\ modal = [t \in Tabs |-> HiddenModal]
    /\ uncaught = [t \in Tabs |-> "none"]
    /\ faults = 0

\* One tab is opened.
Init ==
    /\ InitCommon
    /\ pc = [t \in Tabs |-> IF t = 1 THEN "loading" ELSE "closed"]

\* Two tabs of the same page are opened.
InitTabs ==
    /\ InitCommon
    /\ pc = [t \in Tabs |-> "loading"]

\* ---------------------------------------------------------------- helpers
\* The required-field check without its test of the category.
IsRejectedBarCategory(form) ==
    IF build = "script.js"
    THEN \/ Trim(form.amount) = <<>>
         \/ Trim(form.date) = <<>>
         \/ form.type = ""
    ELSE \/ form.amount = <<>>
         \/ form.date = <<>>
         \/ form.type = ""

\* The required-field check at the head of addTransaction.
IsRejected(form) ==
    IF build = "script.js"
    THEN \/ Trim(form.amount) = <<>>
         \/ Trim(form.category) = <<>>
         \/ Trim(form.date) = <<>>
         \/ form.type = ""
    ELSE \/ form.amount = <<>>
         \/ form.category = <<>>
         \/ form.date = <<>>
         \/ form.type = ""

NewTransaction(form) ==
    [id |-> now, amount |-> form.amount, category |-> form.category,
     description |-> form.description, date |-> form.date, type |-> form.type]

\* unshift in the place of push: the new record goes first.
UnshiftTransaction(records, r) == <<r>> \o records

\* transactions.push(newTransaction)
PushTransaction(records, r) == Append(records, r)

\* The filter with === in the place of !==: only the clicked record is kept.
FilterTransactionsKeepingId(records, id) ==
    LET Keep(r) == r.id = id
    IN  SelectSeq(records, Keep)

\* transactions.filter(t => t.id !== id)
FilterTransactions(records, id) ==
    LET Keep(r) == r.id # id
    IN  SelectSeq(records, Keep)

\* A save that runs ahead of the push: the newest record is not in the text.
SaveTransactionsEarly(records) ==
    Item(Stringify(IF records = <<>> THEN records ELSE Front(records)))

\* A save that adds the array to the text already in the slot.
SaveTransactionsAppending(records) == Item(storage.text \o Stringify(records))

\* What saveTransactions() leaves in the slot.
SaveTransactions(records) == Item(Stringify(records))

\* JSON.parse(localStorage.getItem('transactions')) || []
LoadTransactions(item) ==
    IF item.present THEN Parse(item.text) ELSE <<>>

\* The records held in memory over all tabs.
TotalRecords == Len(transactions[1]) + Len(transactions[2])

\* The tail with a rollback: a setItem that throws leaves the array as it was.
MutateOrRollBack(t, records, written) ==
    IF written
    THEN /\ transactions' = [transactions EXCEPT ![t] = records]
         /\ storage' = SaveTransactions(records)
         /\ view' = [view EXCEPT ![t] = RenderTransactions(records)]
         /\ summary' = [summary EXCEPT ![t] = UpdateSummary(records)]
         /\ UNCHANGED <<uncaught, faults>>
    ELSE /\ faults < MaxFaults
         /\ faults' = faults + 1
         /\ uncaught' = [uncaught EXCEPT ![t] = "QuotaExceededError"]
         /\ UNCHANGED <<transactions, storage, view, summary>>

\* The tail shared by add and delete: the array is replaced, then saved, then
\* the table and the cards are redrawn.  A setItem that throws ends the
\* handler after the array has been replaced.
Mutate(t, records, written) ==
    /\ transactions' = [transactions EXCEPT ![t] = records]
    /\ IF written
       THEN /\ storage' = SaveTransactions(records)
            /\ view' = [view EXCEPT ![t] = RenderTransactions(records)]
            /\ summary' = [summary EXCEPT ![t] = UpdateSummary(records)]
            /\ UNCHANGED <<uncaught, faults>>
       ELSE /\ faults < MaxFaults
            /\ faults' = faults + 1
            /\ uncaught' = [uncaught EXCEPT ![t] = "QuotaExceededError"]
            /\ UNCHANGED <<storage, view, summary>>

\* ---------------------------------------------------------------- actions
\* The clock advances.
Tick ==
    /\ now < MaxClock
    /\ now' = now + 1
    /\ UNCHANGED <<build, storage, pc, transactions, view, summary, modal, uncaught,
                   faults>>

\* The DOMContentLoaded callback: load the array, then init().
DOMContentLoaded(t) ==
    /\ pc[t] = "loading"
    /\ IF storage.present /\ ~WellFormed(storage.text)
       THEN /\ pc' = [pc EXCEPT ![t] = "crashed"]
            /\ uncaught' = [uncaught EXCEPT ![t] = "SyntaxError"]
            /\ UNCHANGED <<transactions, view, summary>>
       ELSE LET loaded == LoadTransactions(storage)
            IN  /\ pc' = [pc EXCEPT ![t] = "ready"]
                /\ transactions' = [transactions EXCEPT ![t] = loaded]
                /\ view' = [view EXCEPT ![t] = RenderTransactions(loaded)]
                /\ summary' = [summary EXCEPT ![t] = UpdateSummary(loaded)]
                /\ UNCHANGED uncaught
    /\ UNCHANGED <<build, now, storage, modal, faults>>

\* The form's submit handler.
AddTransaction(t, form, written) ==
    /\ pc[t] = "ready"
    /\ IF IsRejected(form)
       THEN /\ modal' = [modal EXCEPT ![t] = ShowModal("Validation Error", 0)]
            /\ UNCHANGED <<storage, transactions, view, summary, uncaught, faults>>
       ELSE /\ TotalRecords < MaxLen
            /\ Mutate(t, PushTransaction(transactions[t], NewTransaction(form)), written)
            /\ UNCHANGED modal
    /\ UNCHANGED <<build, now, pc>>

\* handleListClick of script.js, on the delete button of row i: the deletion
\* waits for the Delete button of the modal.
HandleListClickModal(t, i) ==
    /\ build = "script.js"
    /\ pc[t] = "ready"
    /\ i \in DOMAIN view[t]
    /\ LET id == ParseInt(view[t][i].dataId)
       IN  modal' = [modal EXCEPT ![t] = ShowModal("Confirm Deletion", id)]
    /\ UNCHANGED <<build, now, pc, storage, transactions, view, summary, uncaught, faults>>

\* handleListClick of part_000, on the delete button of row i: window.confirm
\* answers before the handler goes on.
HandleListClickConfirm(t, i, isConfirmed, written) ==
    /\ build = "part_000"
    /\ pc[t] = "ready"
    /\ i \in DOMAIN view[t]
    /\ LET id == ParseInt(view[t][i].dataId)
       IN  IF isConfirmed
           THEN Mutate(t, FilterTransactions(transactions[t], id), written)
           ELSE UNCHANGED <<storage, transactions, view, summary, uncaught, faults>>
    /\ UNCHANGED <<build, now, pc, modal>>

\* The click handler showModal gives each button of the modal.  A hidden modal
\* offers nothing to click, so what it last showed is not kept.
ModalButtonClick(t, button, written) ==
    /\ pc[t] = "ready"
    /\ modal[t].display = "flex"
    /\ button \in ModalButtons(modal[t])
    /\ modal' = [modal EXCEPT ![t] = HiddenModal]
    /\ IF button = "Delete"
       THEN Mutate(t, FilterTransactions(transactions[t], modal[t].id), written)
       ELSE UNCHANGED <<storage, transactions, view, summary, uncaught, faults>>
    /\ UNCHANGED <<build, now, pc>>

\* Whether setItem throws is drawn only for the handlers that call it.
Outcomes(saves) == IF saves THEN BOOLEAN ELSE {TRUE}

Next ==
    \/ Tick
    \/ \E t \in Tabs : DOMContentLoaded(t)
    \/ \E t \in Tabs, form \in Forms : \E written \in Outcomes(~IsRejected(form)) :
           AddTransaction(t, form, written)
    \/ \E t \in Tabs : \E i \in DOMAIN view[t] : HandleListClickModal(t, i)
    \/ \E t \in Tabs, isConfirmed \in BOOLEAN :
           \E i \in DOMAIN view[t], written \in Outcomes(isConfirmed) :
               HandleListClickConfirm(t, i, isConfirmed, written)
    \/ \E t \in Tabs, button \in {"OK", "Cancel", "Delete"} :
           \E written \in Outcomes(button = "Delete") :
               ModalButtonClick(t, button, written)

\* The forms submitted where two tabs are open: the ones that are accepted.
TabForms == ValidForms

\* The same handlers when every setItem succeeds.
NextTabs ==
    \/ Tick
    \/ \E t \in Tabs : DOMContentLoaded(t)
    \/ \E t \in Tabs, form \in TabForms : AddTransaction(t, form, TRUE)
    \/ \E t \in Tabs : \E i \in DOMAIN view[t] : HandleListClickModal(t, i)
    \/ \E t \in Tabs, isConfirmed \in BOOLEAN :
           \E i \in DOMAIN view[t] : HandleListClickConfirm(t, i, isConfirmed, TRUE)
    \/ \E t \in Tabs, button \in {"OK", "Cancel", "Delete"} :
           ModalButtonClick(t, button, TRUE)

\* One tab.
Spec == Init /\ [][Next]_vars

\* Two tabs on the same storage.
SpecTabs == InitTabs /\ [][NextTabs]_vars


\* ------------------------------------------- steps the properties speak of
Ids == 0..MaxClock

\* Tab t accepts the form and pushes its record.
AcceptedAdd(t, form, written) ==
    AddTransaction(t, form, written) /\ ~IsRejected(form)

\* Tab t carries out a confirmed deletion asked on the button of record id.
ConfirmedRemove(t, id, written) ==
    \/ \E i \in DOMAIN view[t] :
           /\ view[t][i].dataId = NumberToString(id)
           /\ HandleListClickConfirm(t, i, TRUE, written)
    \/ /\ modal[t].id = id
       /\ ModalButtonClick(t, "Delete", written)

\* Tab t completes an add or a confirmed remove.
Mutation(t, written) ==
    \/ \E form \in Forms : AcceptedAdd(t, form, written)
    \/ \E id \in Ids : ConfirmedRemove(t, id, written)

KeptIndex(before, id, j) ==
    CHOOSE i \in DOMAIN before :
        /\ before[i].id # id
        /\ Cardinality({m \in 1..i : before[m].id # id}) = j

\* C2: after a confirmed remove(id) no record of the array has that id and
\* the records with another id are all there, in their earlier order; when no
\* record has the id the array is unchanged and, the write succeeding, no
\* exception is raised.
C2_RemoveFiltersById ==
    [][\A t \in Tabs, id \in Ids, written \in BOOLEAN :
          ConfirmedRemove(t, id, written) =>
              LET before == transactions[t]
                  after == transactions'[t]
                  kept == {i \in DOMAIN before : before[i].id # id}
              IN  /\ \A j \in DOMAIN after : after[j].id # id
                  /\ Len(after) = Cardinality(kept)
                  /\ \A j \in DOMAIN after : after[j] = before[KeptIndex(before, id, j)]
                  /\ kept = DOMAIN before =>
                         /\ after = before
                         /\ written => uncaught' = uncaught]_vars

C2_Witness ==
    /\ pc[1] = "ready"
    /\ transactions[1] = <<>>
    /\ view[1] = <<>>
    /\ storage = Item(<<>>)

\* ---------------------------------------------------------------------- C3
HasEmptyRequired(form) ==
    \/ form.amount = <<>>
    \/ form.category = <<>>
    \/ form.date = <<>>
    \/ form.type = ""

\* C3: a submit with amount, category, date or type empty shows the
\* validation modal and changes neither the array nor the storage slot; a
\* submit whose only empty field is the description is accepted.
C3_EmptyRequiredRejected ==
    [][\A t \in Tabs, form \in Forms, written \in BOOLEAN :
          AddTransaction(t, form, written) =>
              /\ HasEmptyRequired(form) =>
                     /\ modal'[t].display = "flex"
                     /\ modal'[t].title = "Validation Error"
                     /\ transactions' = transactions
                     /\ storage' = storage
              /\ (form \in ValidForms /\ form.description = "") =>
                     /\ Len(transactions'[t]) = Len(transactions[t]) + 1
                     /\ modal' = modal]_vars

C3_Witness ==
    /\ pc[1] = "ready"
    /\ modal[1] = ShowModal("Validation Error", 0)
    /\ transactions[1] = <<SeedRecord>>
    /\ storage = Item(Stringify(<<SeedRecord>>))


\* ---------------------------------------------------------------------- C4
\* The persisted collection, an absent slot counting as the empty one.
Persisted == IF storage.present THEN Parse(storage.text) ELSE <<>>

\* C4: with one tab and no failed write, once the tab has loaded the
\* persisted collection equals the in-memory array after every step, and every
\* add and every confirmed remove leaves in the slot the text of the whole
\* array.
C4_PersistedEqualsMemory ==
    [][(pc'[1] = "ready" /\ faults' = 0) =>
          /\ storage'.present => WellFormed(storage'.text)
          /\ Persisted' = transactions'[1]
          /\ Mutation(1, TRUE) =>
                 /\ storage'.present
                 /\ storage'.text = Stringify(transactions'[1])]_vars

C4_Witness ==
    /\ pc[1] = "ready"
    /\ faults = 0
    /\ Len(transactions[1]) = MaxLen
    /\ transactions[1][1] = SeedRecord
    /\ storage.present
    /\ Persisted = transactions[1]

\* ---------------------------------------------------------------------- C5
\* The sum of the amounts of the records of one type, record by record.
RECURSIVE SumOfType(_, _)
SumOfType(records, type) ==
    IF records = <<>> THEN 0
    ELSE SumOfType(Front(records), type)
             + (IF Last(records).type = type
                THEN DigitsToNumber(Last(records).amount) ELSE 0)

IsSummaryOf(s, records) ==
    /\ s.income = SumOfType(records, "income")
    /\ s.expense = SumOfType(records, "expense")
    /\ s.balance = s.income - s.expense
    /\ records = <<>> => (s.income = 0 /\ s.expense = 0 /\ s.balance = 0)

\* C5: the summary of every array the tab can hold has income and expense
\* the sums of the amounts of the records of that type and balance their
\* difference (all 0 for the empty array); the cards show that summary of the
\* array whenever no write has failed; income 100 followed by expense 30
\* shows 100, 30 and 70.
C5_SummaryIsConsistent ==
    \A t \in Tabs :
        pc[t] = "ready" =>
            /\ IsSummaryOf(UpdateSummary(transactions[t]), transactions[t])
            /\ summary[t].balance = summary[t].income - summary[t].expense
            /\ faults = 0 => IsSummaryOf(summary[t], transactions[t])
            /\ ( /\ faults = 0
                 /\ Len(transactions[t]) = 2
                 /\ transactions[t][1].type = "income"
                 /\ transactions[t][1].amount = <<"1", "0", "0">>
                 /\ transactions[t][2].type = "expense"
                 /\ transactions[t][2].amount = <<"3", "0">> )
               => summary[t] = [income |-> 100, expense |-> 30, balance |-> 70]

C5_Witness ==
    /\ pc[1] = "ready"
    /\ faults = 0
    /\ Len(transactions[1]) = 2
    /\ transactions[1][1].type = "income"
    /\ transactions[1][1].amount = <<"1", "0", "0">>
    /\ transactions[1][2].type = "expense"
    /\ transactions[1][2].amount = <<"3", "0">>
    /\ summary[1].balance = 70

\* ---------------------------------------------------------------------- C6
\* The calendar date as year, month and day.
DateKey(s) ==
    <<DigitsToNumber(SubSeq(s, 1, 4)), DigitsToNumber(SubSeq(s, 6, 7)),
      DigitsToNumber(SubSeq(s, 9, 10))>>

IsLater(a, b) ==
    LET x == DateKey(a)
        y == DateKey(b)
    IN  \/ x[1] > y[1]
        \/ x[1] = y[1] /\ x[2] > y[2]
        \/ x[1] = y[1] /\ x[2] = y[2] /\ x[3] > y[3]

IsDateDescending(rows) ==
    \A i \in DOMAIN rows : \A j \in DOMAIN rows :
        i < j => ~IsLater(rows[j].date, rows[i].date)

\* rows holds each record of records exactly once.
IsListingOf(rows, records) ==
    /\ Len(rows) = Len(records)
    /\ \E p \in [DOMAIN rows -> DOMAIN records] :
           /\ \A i \in DOMAIN rows : \A j \in DOMAIN rows : i # j => p[i] # p[j]
           /\ \A i \in DOMAIN rows : rows[i] = Row(records[p[i]])

\* C6: the table rendered from any array the tab can hold lists each record
\* once, no row followed by a row of a later date; the table on the page is
\* always in that order and, no write having failed, lists the current array;
\* records dated 2024-01-01, 2024-03-01, 2024-02-01 in that order are listed
\* as 2024-03-01, 2024-02-01, 2024-01-01.
C6_ListIsDateDescending ==
    \A t \in Tabs :
        pc[t] = "ready" =>
            /\ IsDateDescending(RenderTransactions(transactions[t]))
            /\ IsListingOf(RenderTransactions(transactions[t]), transactions[t])
            /\ IsDateDescending(view[t])
            /\ faults = 0 => IsListingOf(view[t], transactions[t])
            /\ ( /\ faults = 0
                 /\ Len(transactions[t]) = 3
                 /\ transactions[t][1].date = Date0101
                 /\ transactions[t][2].date = Date0301
                 /\ transactions[t][3].date = Date0201 )
               => /\ view[t][1].date = Date0301
                  /\ view[t][2].date = Date0201
                  /\ view[t][3].date = Date0101

C6_Witness ==
    /\ pc[1] = "ready"
    /\ faults = 0
    /\ Len(transactions[1]) = 3
    /\ transactions[1][1].date = Date0101
    /\ transactions[1][2].date = Date0301
    /\ transactions[1][3].date = Date0201
    /\ view[1][1].date = Date0301
    /\ view[1][3].date = Date0101

\* ---------------------------------------------------------------------- C7
\* C7: a tab that has run its DOMContentLoaded callback is initialised and
\* has reported no error, whatever the slot held.
C7_LoadNeverFails ==
    \A t \in Tabs :
        pc[t] \notin {"closed", "loading"} =>
            /\ pc[t] = "ready"
            /\ uncaught[t] # "SyntaxError"

\* ---------------------------------------------------------------------- C8
\* C8: with two tabs on one slot, every add and every confirmed remove that
\* a tab completes leaves in the slot exactly that tab's array, whatever the
\* other tab holds, touches nothing of the other tab and raises no exception.
C8_LastWriterWins ==
    [][\A t \in Tabs :
          Mutation(t, TRUE) =>
              /\ storage' = Item(Stringify(transactions'[t]))
              /\ Persisted' = transactions'[t]
              /\ uncaught' = uncaught
              /\ \A o \in Tabs \ {t} :
                     /\ transactions'[o] = transactions[o]
                     /\ modal'[o] = modal[o]
                     /\ view'[o] = view[o]]_vars

\* Both tabs loaded the seed, tab 1 added a record, then tab 2 added another:
\* the slot holds tab 2's array, without tab 1's record.
C8_Witness ==
    /\ pc[1] = "ready" /\ pc[2] = "ready"
    /\ Len(transactions[1]) = 2 /\ Len(transactions[2]) = 2
    /\ transactions[1][1] = SeedRecord /\ transactions[2][1] = SeedRecord
    /\ transactions[1][2] # transactions[2][2]
    /\ Persisted = transactions[2]
    /\ uncaught[1] = "none" /\ uncaught[2] = "none"

\* ---------------------------------------------------------------------- C9
\* C9: no two records of an array have the same id.
C9_IdsAreUnique ==
    \A t \in Tabs :
        \A i \in DOMAIN transactions[t] : \A j \in DOMAIN transactions[t] :
            i # j => transactions[t][i].id # transactions[t][j].id

\* --------------------------------------------------------------------- C10
Diverged(t) == pc[t] = "ready" /\ Persisted # transactions[t]

\* What the failed handler was about to save.
FailedMutationTo(t, records) ==
    \/ \E form \in Forms :
           /\ AcceptedAdd(t, form, FALSE)
           /\ records = Append(transactions[t], NewTransaction(form))
    \/ \E id \in Ids :
           /\ ConfirmedRemove(t, id, FALSE)
           /\ records = FilterTransactions(transactions[t], id)

FailedWriteKeepsMutation(t) ==
    Mutation(t, FALSE) =>
        /\ \E records \in {transactions'[t]} : FailedMutationTo(t, records)
        /\ storage' = storage
        /\ uncaught'[t] = "QuotaExceededError"

====
